---- MODULE Spec2Model ----
(***************************************************************************)
(* Model of pimdb/common.py: the "last modified" cache (LastModifiedMap),  *)
(* the conditional download (download_imdb_dataset) and the deduplicating  *)
(* reader of gzipped TSV files (GzippedTsvReader).                         *)
(***************************************************************************)
EXTENDS Integers, Sequences, FiniteSets, TLC

\* ------------------------------------------------------------------------
\* Bounds of the model
\* ------------------------------------------------------------------------

\* Number of chunks response.iter_content() delivers for one body.
NumChunks == 2

\* Number of distinct response bodies the server can send.
NumBodies == 2

\* Largest number of rows (lines after the header) of an input file.
MaxRows == 3

\* Largest value of the clock time.time() reads.
MaxTime == 4

\* Largest number of records the round trip writes.
MaxRecords == 2

\* ------------------------------------------------------------------------
\* Values
\* ------------------------------------------------------------------------

\* Python's None: dict.get() of a missing key, headers.get() of a missing
\* header, JSON null.
PyNone == "None"

\* Source URLs of two datasets whose target paths share one directory, and
\* therefore one ".pimdb_last_modified.json".
URLs == {"name.basics", "title.akas"}

\* Values a server sends in the "last-modified" header.
Tokens == {"t1", "t2"}

\* What response.headers.get("last-modified") can return.
HeaderValues == Tokens \cup {PyNone}

Bodies == 1..NumBodies

\* A target path that does not exist.
NoFile == [body |-> 0, chunks |-> 0]

\* ------------------------------------------------------------------------
\* State
\* ------------------------------------------------------------------------
VARIABLES
    \* --- file system ---
    cache_file,            \* content of .pimdb_last_modified.json
    target_file,           \* content of each dataset's target_path
    \* --- the download_imdb_dataset call in progress (or the last one) ---
    f_pc,                  \* position in download_imdb_dataset
    source_url,
    only_if_newer,
    last_modified_map,     \* LastModifiedMap._url_to_last_modified_map
    current_last_modified,
    outcome,               \* how the last call ended
    \* --- observations of the call, for the properties ---
    snap_cache,            \* cache_file when the call started
    snap_target,           \* target_file[source_url] when the call started
    opened_target,         \* the call has opened target_path for writing
    fetched,               \* per URL: token of its last successful conditional download
    lost,                  \* URLs fetched before a crash inside LastModifiedMap.write
    \* --- the gzipped TSV file, as csv.reader delivers it ---
    fieldnames,            \* the header row
    tsv_rows,              \* the rows after the header
    \* --- the writer of the round trip test ---
    write_columns,         \* the column names of the records, in order
    rows_to_write,         \* the records to write
    written,               \* how many of them tsv_writer.write() has written
    \* --- GzippedTsvReader ---
    key_columns,           \* self._key_columns
    has_progress,          \* self._indicate_progress is not None
    seconds_between_progress_update,
    row_number,            \* self._row_number
    duplicate_count,       \* self._duplicate_count
    now,                   \* the clock
    \* --- each generator column_names_to_value_maps() returned ---
    g_pc,                  \* position of the generator
    pos,                   \* rows the generator's csv.reader has delivered
    existing_keys,
    last_progress_time,
    yielded,               \* the records the consumer received, in order
    yielded_from,          \* for each of them, the index of its row in tsv_rows
    progress_calls,        \* the calls of indicate_progress: <<row_number, duplicate_count, time>>
    error_row_number,      \* row_number of the PimdbTsvError raised
    \* --- the server of one dataset whose content is replaced over time ---
    server_token,          \* the "last-modified" value it advertises
    last_body              \* body of the last successful conditional download

fetch_vars == <<cache_file, target_file, f_pc, source_url, only_if_newer,
                last_modified_map, current_last_modified, outcome,
                snap_cache, snap_target, opened_target, fetched, lost>>

file_vars == <<fieldnames, tsv_rows>>

writer_vars == <<write_columns, rows_to_write, written>>

reader_vars == <<key_columns, has_progress, seconds_between_progress_update, row_number, duplicate_count, now,
                 g_pc, pos, existing_keys, last_progress_time, yielded,
                 yielded_from, progress_calls, error_row_number>>

server_vars == <<server_token, last_body>>

vars == <<fetch_vars, file_vars, writer_vars, reader_vars, server_vars>>

\* ------------------------------------------------------------------------
\* Python dict
\* ------------------------------------------------------------------------
EmptyDict == [u \in {} |-> PyNone]

\* dict.get(key): None for a missing key.
DictGet(d, key) == IF key \in DOMAIN d THEN d[key] ELSE PyNone

\* d[key] = value
DictSet(d, key, value) ==
    [k \in (DOMAIN d) \cup {key} |-> IF k = key THEN value ELSE d[k]]

\* ------------------------------------------------------------------------
\* LastModifiedMap
\* ------------------------------------------------------------------------

\* The file does not exist.
AbsentFile == [kind |-> "absent"]

\* The file as open(path, "w") leaves it before json.dump's output reaches
\* it: empty or a prefix of a JSON document. json.load raises on both.
TornFile == [kind |-> "torn"]

\* json.dump(self._url_to_last_modified_map, last_modified_file)
JsonDump(d) == [kind |-> "json", map |-> d]

\* LastModifiedMap.__init__: json.load of the file; FileNotFoundError and
\* every other exception leave the map empty.
LoadMap(file) == IF file.kind = "json" THEN file.map ELSE EmptyDict

\* Bug variant of is_modified: the entry is looked up under the token instead
\* of under the URL.
IsModified_LooksUpToken(map, url, cur) == cur # DictGet(map, cur)

\* LastModifiedMap.is_modified
IsModified(map, url, cur) == cur # DictGet(map, url)

\* Bug variant of update: the map is replaced by one holding only the new
\* entry.
Update_ReplacesMap(map, url, last_modified) == DictSet(EmptyDict, url, last_modified)

\* LastModifiedMap.update
Update(map, url, last_modified) == DictSet(map, url, last_modified)

\* ------------------------------------------------------------------------
\* download_imdb_dataset
\* ------------------------------------------------------------------------

\* Lines 139-141: the call starts; with only_if_newer the cache is loaded.
StartCall(u, oin) ==
    /\ source_url' = u
    /\ only_if_newer' = oin
    /\ last_modified_map' = IF oin THEN LoadMap(cache_file) ELSE EmptyDict
    /\ snap_target' = target_file[u]
    /\ snap_cache' = cache_file
    /\ opened_target' = FALSE
    /\ current_last_modified' = PyNone
    /\ outcome' = "none"
    /\ f_pc' = "request"
    /\ UNCHANGED <<cache_file, target_file, fetched, lost, file_vars, writer_vars, reader_vars, server_vars>>

\* download_imdb_dataset is called for any dataset, with only_if_newer or
\* without.
Download_Call ==
    /\ f_pc = "idle"
    /\ \E u \in URLs, oin \in BOOLEAN : StartCall(u, oin)

\* Lines 143-144: requests.get answers with a non-success status and
\* raise_for_status() raises.
Download_HttpError ==
    /\ f_pc = "request"
    /\ outcome' = "http_error"
    /\ f_pc' = "idle"
    /\ UNCHANGED <<cache_file, target_file, source_url, only_if_newer,
                   last_modified_map, current_last_modified, snap_cache,
                   snap_target, opened_target, fetched, lost, file_vars, writer_vars, reader_vars, server_vars>>

\* Bug variant of has_to_be_downloaded: the cache decides whatever
\* only_if_newer says.
HasToBeDownloaded_AsksCache(oin, map, url, hdr) == IsModified(map, url, hdr)

\* Lines 145-149: has_to_be_downloaded
HasToBeDownloaded(oin, map, url, hdr) ==
    IF oin THEN IsModified(map, url, hdr) ELSE TRUE

\* Lines 143-155 and 163: a success status; the header is read, the download
\* is decided and, when needed, target_path is opened with "wb" (truncated).
Respond(hdr, b) ==
    /\ current_last_modified' = IF only_if_newer THEN hdr ELSE PyNone
    /\ IF HasToBeDownloaded(only_if_newer, last_modified_map, source_url, hdr)
       THEN /\ target_file' = [target_file EXCEPT ![source_url] =
                                    [body |-> b, chunks |-> 0]]
            /\ opened_target' = TRUE
            /\ f_pc' = "stream"
            /\ outcome' = outcome
       ELSE /\ outcome' = "skipped"
            /\ f_pc' = "idle"
            /\ UNCHANGED <<target_file, opened_target>>

\* The response of any server: any "last-modified" header or none, any body.
Download_Response ==
    /\ f_pc = "request"
    /\ \E hdr \in HeaderValues, b \in Bodies : Respond(hdr, b)
    /\ UNCHANGED <<cache_file, source_url, only_if_newer, last_modified_map,
                   snap_cache, snap_target, fetched, lost, file_vars, writer_vars, reader_vars, server_vars>>

\* Lines 156-158: one chunk of the body is written to the target file.
Download_WriteChunk ==
    /\ f_pc = "stream"
    /\ target_file[source_url].chunks < NumChunks
    /\ target_file' = [target_file EXCEPT ![source_url].chunks = @ + 1]
    /\ UNCHANGED <<cache_file, f_pc, source_url, only_if_newer,
                   last_modified_map, current_last_modified, outcome,
                   snap_cache, snap_target, opened_target, fetched, lost, file_vars, writer_vars, reader_vars, server_vars>>

\* Bug variant of the transport failure: the token is recorded and persisted
\* although the body is incomplete (update and write in a finally clause).
Download_TransportError_Persists ==
    /\ f_pc = "stream"
    /\ target_file[source_url].chunks < NumChunks
    /\ outcome' = "transport_error"
    /\ f_pc' = "idle"
    /\ cache_file' = IF only_if_newer
                     THEN JsonDump(DictSet(last_modified_map, source_url,
                                           current_last_modified))
                     ELSE cache_file
    /\ UNCHANGED <<target_file, source_url, only_if_newer,
                   last_modified_map, current_last_modified, snap_cache,
                   snap_target, opened_target, fetched, lost, file_vars, writer_vars, reader_vars, server_vars>>

\* Line 156: iter_content raises (the connection broke); the exception leaves
\* both with-blocks and the function.
Download_TransportError ==
    /\ f_pc = "stream"
    /\ target_file[source_url].chunks < NumChunks
    /\ outcome' = "transport_error"
    /\ f_pc' = "idle"
    /\ UNCHANGED <<cache_file, target_file, source_url, only_if_newer,
                   last_modified_map, current_last_modified, snap_cache,
                   snap_target, opened_target, fetched, lost, file_vars, writer_vars, reader_vars, server_vars>>

\* Lines 155-161 and 134: the body is complete and the target file closed.
\* With only_if_newer: update(), then write() opens the cache file with "w",
\* which truncates it. Without: the function returns.
Download_BodyDone ==
    /\ f_pc = "stream"
    /\ target_file[source_url].chunks = NumChunks
    /\ IF only_if_newer
       THEN /\ last_modified_map' =
                    Update(last_modified_map, source_url, current_last_modified)
            /\ cache_file' = TornFile
            /\ f_pc' = "write"
            /\ outcome' = outcome
       ELSE /\ outcome' = "downloaded"
            /\ f_pc' = "idle"
            /\ UNCHANGED <<last_modified_map, cache_file>>
    /\ UNCHANGED <<target_file, source_url, only_if_newer,
                   current_last_modified, snap_cache, snap_target,
                   opened_target, fetched, lost, file_vars, writer_vars, reader_vars, server_vars>>

\* Line 135: json.dump writes the whole map, the file is closed and the
\* function returns.
WriteCache ==
    /\ f_pc = "write"
    /\ cache_file' = JsonDump(last_modified_map)
    /\ outcome' = "downloaded"
    /\ f_pc' = "idle"
    /\ fetched' = [fetched EXCEPT ![source_url] = current_last_modified]
    /\ lost' = lost \ {source_url}
    /\ UNCHANGED <<target_file, source_url, only_if_newer, last_modified_map,
                   current_last_modified, snap_cache, snap_target,
                   opened_target, file_vars, writer_vars, reader_vars>>

Download_WriteCache ==
    /\ WriteCache
    /\ UNCHANGED server_vars

\* ------------------------------------------------------------------------
\* Conditional fetches of one dataset from a server that replaces its
\* content from time to time and advertises a new token for each content
\* ------------------------------------------------------------------------

\* The dataset that is fetched.
RefetchUrl == "name.basics"

\* The tokens of the server, in the order in which it advertises them.
ServerVersions == <<"t1", "t2">>

\* The server replaces the content: from now on it advertises the next
\* token, and never again the one it has replaced.
Server_Replace ==
    /\ \E v \in 1..(Len(ServerVersions) - 1) :
        /\ server_token = ServerVersions[v]
        /\ server_token' = ServerVersions[v + 1]
    /\ UNCHANGED <<fetch_vars, file_vars, writer_vars, reader_vars, last_body>>

\* Lines 139-141: download_imdb_dataset(dataset, target_path), with
\* only_if_newer=True.
Refetch_Call ==
    /\ f_pc = "idle"
    /\ StartCall(RefetchUrl, TRUE)

\* Lines 143-155 and 163: the response carries the server's current token.
Refetch_Response ==
    /\ f_pc = "request"
    /\ \E b \in Bodies : Respond(server_token, b)
    /\ UNCHANGED <<cache_file, source_url, only_if_newer, last_modified_map,
                   snap_cache, snap_target, fetched, lost, file_vars, writer_vars, reader_vars, server_vars>>

\* Line 135: the cache is written and the call returns; the body in the
\* target file is the one of the last successful download.
Refetch_WriteCache ==
    /\ WriteCache
    /\ last_body' = target_file[source_url].body
    /\ UNCHANGED server_token

\* The process dies inside the call. The files stay as they are.
Crash ==
    /\ f_pc # "idle"
    /\ outcome' = "crashed"
    /\ f_pc' = "idle"
    /\ lost' = IF f_pc = "write"
               THEN {u \in URLs : fetched[u] \in Tokens}
               ELSE lost
    /\ UNCHANGED <<cache_file, target_file, source_url, only_if_newer,
                   last_modified_map, current_last_modified, snap_cache,
                   snap_target, opened_target, fetched, file_vars, writer_vars, reader_vars, server_vars>>

\* ------------------------------------------------------------------------
\* LastModifiedMap used on its own: f_pc is the state of the one object in
\* use ("loaded", "updated", "write" inside write(), "written")
\* ------------------------------------------------------------------------

\* The states of a LastModifiedMap between two calls of its methods.
CacheAtRest == {"loaded", "updated", "written"}

\* Lines 104-118: LastModifiedMap(path); an object in use is dropped.
Cache_Construct ==
    /\ f_pc \in {"idle"} \cup CacheAtRest
    /\ last_modified_map' = LoadMap(cache_file)
    /\ snap_cache' = cache_file
    /\ f_pc' = "loaded"
    /\ UNCHANGED <<cache_file, target_file, source_url, only_if_newer,
                   current_last_modified, outcome, snap_target, opened_target,
                   fetched, lost, file_vars, writer_vars, reader_vars, server_vars>>

\* Bug variant of update: the map is written to the file at once.
Cache_Update_WritesThrough ==
    /\ f_pc \in CacheAtRest
    /\ \E u \in URLs, t \in HeaderValues :
        /\ last_modified_map' = Update(last_modified_map, u, t)
        /\ cache_file' = JsonDump(Update(last_modified_map, u, t))
        /\ source_url' = u
        /\ current_last_modified' = t
    /\ f_pc' = "updated"
    /\ UNCHANGED <<target_file, only_if_newer, outcome, snap_cache,
                   snap_target, opened_target, fetched, lost, file_vars, writer_vars, reader_vars, server_vars>>

\* Lines 130-131: update(url, last_modified).
Cache_Update ==
    /\ f_pc \in CacheAtRest
    /\ \E u \in URLs, t \in HeaderValues :
        /\ last_modified_map' = Update(last_modified_map, u, t)
        /\ source_url' = u
        /\ current_last_modified' = t
    /\ f_pc' = "updated"
    /\ UNCHANGED <<cache_file, target_file, only_if_newer, outcome, snap_cache,
                   snap_target, opened_target, fetched, lost, file_vars, writer_vars, reader_vars, server_vars>>

\* Line 134: write() opens the file with "w", which truncates it.
Cache_WriteOpen ==
    /\ f_pc \in CacheAtRest
    /\ cache_file' = TornFile
    /\ f_pc' = "write"
    /\ UNCHANGED <<target_file, source_url, only_if_newer, last_modified_map,
                   current_last_modified, outcome, snap_cache, snap_target,
                   opened_target, fetched, lost, file_vars, writer_vars, reader_vars, server_vars>>

\* Line 135: json.dump writes the whole map and the file is closed.
Cache_WriteDump ==
    /\ f_pc = "write"
    /\ cache_file' = JsonDump(last_modified_map)
    /\ snap_cache' = JsonDump(last_modified_map)
    /\ f_pc' = "written"
    /\ UNCHANGED <<target_file, source_url, only_if_newer, last_modified_map,
                   current_last_modified, outcome, snap_target,
                   opened_target, fetched, lost, file_vars, writer_vars, reader_vars, server_vars>>

\* ------------------------------------------------------------------------
\* Strings, rows and records
\* ------------------------------------------------------------------------

\* A string is the sequence of its characters.
Chr(c) == <<c>>

\* None as the value of an integer attribute.
PyNoneInt == -1

\* The values of a record csv.DictReader builds: a field of the row, the
\* restval (None) of a missing field, the list of the surplus fields.
StrValue(s) == [str |-> s]
NoneValue == [none |-> TRUE]
ListValue(l) == [list |-> l]

\* csv.DictReader's restkey (None): the key of the surplus fields.
RestKey == <<"None">>

\* A row at which csv.reader raises csv.Error.
CsvError == << <<"csv.Error">> >>

\* The default of seconds_between_progress_update.
SecondsBetweenProgressUpdate == 3

\* The generators of one GzippedTsvReader.
Passes == {1, 2}

\* ------------------------------------------------------------------------
\* The text of a TSV file
\* ------------------------------------------------------------------------
TAB == "\t"
LF == "\n"
QUOTE == "\""

RECURSIVE Join(_, _)
\* sep.join(parts)
Join(parts, sep) ==
    IF Len(parts) = 0 THEN << >>
    ELSE IF Len(parts) = 1 THEN parts[1]
    ELSE parts[1] \o <<sep>> \o Join(Tail(parts), sep)

\* The writer of the test, TsvDictWriter: the first write() emits the header
\* line, every write() emits the values of the record joined by tabs and a
\* line feed. The text after the given records.
TsvText(columns, records) ==
    IF Len(records) = 0 THEN << >>
    ELSE LET line(r) == Join([i \in 1..Len(columns) |-> r[columns[i]].str], TAB) \o <<LF>>
             RECURSIVE lines(_)
             lines(k) == IF k = 0 THEN << >> ELSE lines(k - 1) \o line(records[k])
         IN  Join(columns, TAB) \o <<LF>> \o lines(Len(records))

RECURSIVE SplitOn(_, _)
\* The pieces of s between the occurrences of sep.
SplitOn(s, sep) ==
    IF \A i \in 1..Len(s) : s[i] # sep
    THEN <<s>>
    ELSE LET i == CHOOSE k \in 1..Len(s) :
                        s[k] = sep /\ \A m \in 1..(k - 1) : s[m] # sep
         IN  <<SubSeq(s, 1, i - 1)>> \o SplitOn(SubSeq(s, i + 1, Len(s)), sep)

\* Line 201: the lines of the text file opened with newline="": each line
\* feed ends a line; text after the last one is a line of its own. (gzip
\* returns the text that was compressed.)
TextLines(text) ==
    LET pieces == SplitOn(text, LF)
    IN  IF pieces[Len(pieces)] = << >>
        THEN SubSeq(pieces, 1, Len(pieces) - 1)
        ELSE pieces

\* Bug variant of CsvRow: the default quoting (QUOTE_MINIMAL), under which a
\* field that starts with a double quote is a quoted field and loses its
\* enclosing quotes.
CsvRow_QuoteMinimal(line) ==
    IF line = << >> THEN << >>
    ELSE LET fields == SplitOn(line, TAB)
             unquote(f) ==
                IF Len(f) >= 1 /\ f[1] = QUOTE
                THEN IF Len(f) >= 2 /\ f[Len(f)] = QUOTE
                     THEN SubSeq(f, 2, Len(f) - 1)
                     ELSE SubSeq(f, 2, Len(f))
                ELSE f
         IN  [i \in 1..Len(fields) |-> unquote(fields[i])]

\* Line 207: csv.reader with delimiter="\t" and quoting=csv.QUOTE_NONE: the
\* row of one line (without its line feed). An empty line is the row [];
\* double quotes are data.
CsvRow(line) ==
    IF line = << >> THEN << >> ELSE SplitOn(line, TAB)

\* The rows csv.reader delivers for a text.
CsvRows(text) ==
    LET lines == TextLines(text)
    IN  [i \in 1..Len(lines) |-> CsvRow(lines[i])]

\* csv.DictReader.fieldnames: the first row; none in an empty file.
HeaderOf(text) == IF Len(CsvRows(text)) = 0 THEN << >> ELSE CsvRows(text)[1]

\* The rows csv.DictReader reads after the header.
DataRowsOf(text) == IF Len(CsvRows(text)) = 0 THEN << >> ELSE Tail(CsvRows(text))

\* ------------------------------------------------------------------------
\* csv.DictReader
\* ------------------------------------------------------------------------

\* The position whose value a column name gets: dict(zip(fieldnames, row))
\* keeps the last one of a repeated name.
LastIndexOf(names, c) ==
    CHOOSE i \in 1..Len(names) :
        names[i] = c /\ \A j \in (i + 1)..Len(names) : names[j] # c

\* csv.DictReader.__next__: the dict of a row. Missing fields get None,
\* surplus fields are collected under the key None.
RowToDict(names, row) ==
    LET lf == Len(names)
        lr == Len(row)
        cols == {names[i] : i \in 1..lf}
        d == [c \in cols |->
                IF LastIndexOf(names, c) <= lr
                THEN StrValue(row[LastIndexOf(names, c)])
                ELSE NoneValue]
    IN  IF lf < lr
        THEN [c \in cols \cup {RestKey} |->
                IF c = RestKey THEN ListValue(SubSeq(row, lf + 1, lr)) ELSE d[c]]
        ELSE d

\* csv.DictReader.__next__ skips the rows that are []: the index of the next
\* row it delivers after the first p rows, 0 at the end of the file.
NextRowIndex(rows, p) ==
    IF \E i \in (p + 1)..Len(rows) : rows[i] # << >>
    THEN CHOOSE i \in (p + 1)..Len(rows) :
            rows[i] # << >> /\ \A j \in (p + 1)..(i - 1) : rows[j] = << >>
    ELSE 0

\* Bug variant of the key: only the first key column is used.
KeyOf_FirstColumnOnly(result, columns) == <<result[columns[1]]>>

\* Line 211: key = tuple(result[key_column] for key_column in self._key_columns)
KeyOf(result, columns) == [i \in 1..Len(columns) |-> result[columns[i]]]

\* ------------------------------------------------------------------------
\* GzippedTsvReader.column_names_to_value_maps
\* ------------------------------------------------------------------------

\* Bug variant of last_progress_row_number: initialised with 0.
LastProgressRowNumber_Zero == PyNoneInt + 1

\* Line 203: last_progress_row_number, never assigned again.
LastProgressRowNumber == PyNoneInt

\* The generator the consumer may resume: no other one is executing.
MayRun(p) == \A q \in Passes \ {p} : g_pc[q] # "running"

\* The data rows among the first j rows csv.reader has read: DictReader
\* passes over the blank ones.
RowsRead(j) == Cardinality({i \in 1..j : tsv_rows[i] # << >>})

\* A call indicate_progress(rn, dc) at time t, noted with what the pass had
\* done when it was made: the data rows read (j is the last row read), the
\* records yielded and the keys seen.
ProgressCall(p, rn, dc, t, j) ==
    <<rn, dc, t, RowsRead(j), Len(yielded[p]), Cardinality(existing_keys[p])>>

\* Bug variant of the throttled call: last_progress_time is not set to the
\* time of the call (line 222 missing).
ProgressCheck_KeepsProgressTime(p, rn, dc, j) ==
    IF has_progress
    THEN \E t \in now..MaxTime :
            /\ now' = t
            /\ progress_calls' =
                    IF t - last_progress_time[p] > seconds_between_progress_update
                    THEN [progress_calls EXCEPT ![p] =
                                Append(@, ProgressCall(p, rn, dc, t, j))]
                    ELSE progress_calls
            /\ UNCHANGED last_progress_time
    ELSE UNCHANGED <<now, progress_calls, last_progress_time>>

\* Lines 218-222: the throttled call of indicate_progress.
ProgressCheck(p, rn, dc, j) ==
    IF has_progress
    THEN \E t \in now..MaxTime :
            /\ now' = t
            /\ IF t - last_progress_time[p] > seconds_between_progress_update
               THEN /\ progress_calls' =
                            [progress_calls EXCEPT ![p] =
                                Append(@, ProgressCall(p, rn, dc, t, j))]
                    /\ last_progress_time' = [last_progress_time EXCEPT ![p] = t]
               ELSE UNCHANGED <<progress_calls, last_progress_time>>
    ELSE UNCHANGED <<now, progress_calls, last_progress_time>>

\* tsv_writer.write(row_to_write) of the test: the next record reaches the
\* file, whose rows are what csv.reader makes of the text.
Writer_Write ==
    /\ written < Len(rows_to_write)
    /\ g_pc = [p \in Passes |-> "none"]
    /\ written' = written + 1
    /\ LET text == TsvText(write_columns, SubSeq(rows_to_write, 1, written + 1))
       IN  /\ fieldnames' = HeaderOf(text)
           /\ tsv_rows' = DataRowsOf(text)
    /\ UNCHANGED <<fetch_vars, write_columns, rows_to_write, reader_vars, server_vars>>

\* The test reads the file after the writer has closed it.
RoundTrip_Call(p) ==
    /\ written = Len(rows_to_write)
    /\ g_pc[p] = "none"
    /\ g_pc' = [g_pc EXCEPT ![p] = "created"]
    /\ UNCHANGED <<fetch_vars, server_vars, file_vars, writer_vars, key_columns, has_progress,
                   seconds_between_progress_update,
                   row_number, duplicate_count, now, pos, existing_keys,
                   last_progress_time, yielded, yielded_from, progress_calls,
                   error_row_number>>

\* Line 199: the call returns a generator; none of its code has run.
Reader_Call(p) ==
    /\ g_pc[p] = "none"
    /\ g_pc' = [g_pc EXCEPT ![p] = "created"]
    /\ UNCHANGED <<fetch_vars, server_vars, file_vars, writer_vars, key_columns, has_progress,
                   seconds_between_progress_update,
                   row_number, duplicate_count, now, pos, existing_keys,
                   last_progress_time, yielded, yielded_from, progress_calls,
                   error_row_number>>

\* Lines 200-207: the first next() opens the file and resets the counters.
Reader_Start(p) ==
    /\ g_pc[p] = "created"
    /\ MayRun(p)
    /\ last_progress_time' = [last_progress_time EXCEPT ![p] = now]
    /\ existing_keys' = [existing_keys EXCEPT ![p] = {}]
    /\ duplicate_count' = 0
    /\ row_number' = 0
    /\ g_pc' = [g_pc EXCEPT ![p] = "running"]
    /\ UNCHANGED <<fetch_vars, server_vars, file_vars, writer_vars, key_columns, has_progress,
                   seconds_between_progress_update, now, pos,
                   yielded, yielded_from, progress_calls, error_row_number>>

\* Bug variant of the branch of the new keys: the key is not added to
\* existing_keys (line 213 missing).
Reader_Yield_ForgetsKey(p) ==
    LET j == NextRowIndex(tsv_rows, pos[p]) IN
    /\ g_pc[p] = "running"
    /\ j # 0
    /\ tsv_rows[j] # CsvError
    /\ LET result == RowToDict(fieldnames, tsv_rows[j])
           key == KeyOf(result, key_columns)
       IN  /\ key \notin existing_keys[p]
           /\ yielded' = [yielded EXCEPT ![p] = Append(@, result)]
    /\ yielded_from' = [yielded_from EXCEPT ![p] = Append(@, j)]
    /\ row_number' = row_number + 1
    /\ pos' = [pos EXCEPT ![p] = j]
    /\ g_pc' = [g_pc EXCEPT ![p] = "suspended"]
    /\ UNCHANGED <<fetch_vars, server_vars, file_vars, writer_vars, key_columns, has_progress,
                   seconds_between_progress_update, existing_keys,
                   duplicate_count, now, last_progress_time, progress_calls,
                   error_row_number>>

\* Lines 209-214: the next row has a new key and is yielded.
Reader_Yield(p) ==
    LET j == NextRowIndex(tsv_rows, pos[p]) IN
    /\ g_pc[p] = "running"
    /\ j # 0
    /\ tsv_rows[j] # CsvError
    /\ LET result == RowToDict(fieldnames, tsv_rows[j])
           key == KeyOf(result, key_columns)
       IN  /\ key \notin existing_keys[p]
           /\ existing_keys' = [existing_keys EXCEPT ![p] = @ \cup {key}]
           /\ yielded' = [yielded EXCEPT ![p] = Append(@, result)]
    /\ yielded_from' = [yielded_from EXCEPT ![p] = Append(@, j)]
    /\ row_number' = row_number + 1
    /\ pos' = [pos EXCEPT ![p] = j]
    /\ g_pc' = [g_pc EXCEPT ![p] = "suspended"]
    /\ UNCHANGED <<fetch_vars, server_vars, file_vars, writer_vars, key_columns, has_progress,
                   seconds_between_progress_update,
                   duplicate_count, now, last_progress_time, progress_calls,
                   error_row_number>>

\* Lines 218-222 after a yield: the consumer's next() resumes the generator.
Reader_Resume(p) ==
    /\ g_pc[p] = "suspended"
    /\ MayRun(p)
    /\ ProgressCheck(p, row_number, duplicate_count, pos[p])
    /\ g_pc' = [g_pc EXCEPT ![p] = "running"]
    /\ UNCHANGED <<fetch_vars, server_vars, file_vars, writer_vars, key_columns, has_progress,
                   seconds_between_progress_update,
                   row_number, duplicate_count, pos, existing_keys, yielded,
                   yielded_from, error_row_number>>

\* Bug variant of the duplicate branch: the duplicate is dropped but counted
\* only when progress is indicated.
Reader_Duplicate_CountsWithProgressOnly(p) ==
    LET j == NextRowIndex(tsv_rows, pos[p]) IN
    /\ g_pc[p] = "running"
    /\ j # 0
    /\ tsv_rows[j] # CsvError
    /\ KeyOf(RowToDict(fieldnames, tsv_rows[j]), key_columns) \in existing_keys[p]
    /\ row_number' = row_number + 1
    /\ duplicate_count' = IF has_progress THEN duplicate_count + 1 ELSE duplicate_count
    /\ pos' = [pos EXCEPT ![p] = j]
    /\ ProgressCheck(p, row_number + 1, duplicate_count', j)
    /\ UNCHANGED <<fetch_vars, server_vars, file_vars, writer_vars, key_columns, has_progress,
                   seconds_between_progress_update, g_pc,
                   existing_keys, yielded, yielded_from, error_row_number>>

\* Bug variant of the duplicate branch: row_number counts the yielded rows
\* only (the increment moved into the branch of the new keys).
Reader_Duplicate_KeepsRowNumber(p) ==
    LET j == NextRowIndex(tsv_rows, pos[p]) IN
    /\ g_pc[p] = "running"
    /\ j # 0
    /\ tsv_rows[j] # CsvError
    /\ KeyOf(RowToDict(fieldnames, tsv_rows[j]), key_columns) \in existing_keys[p]
    /\ row_number' = row_number
    /\ duplicate_count' = duplicate_count + 1
    /\ pos' = [pos EXCEPT ![p] = j]
    /\ ProgressCheck(p, row_number, duplicate_count + 1, j)
    /\ UNCHANGED <<fetch_vars, server_vars, file_vars, writer_vars, key_columns, has_progress,
                   seconds_between_progress_update, g_pc,
                   existing_keys, yielded, yielded_from, error_row_number>>

\* Lines 209-222: the next row repeats a key; it is counted and dropped.
Reader_Duplicate(p) ==
    LET j == NextRowIndex(tsv_rows, pos[p]) IN
    /\ g_pc[p] = "running"
    /\ j # 0
    /\ tsv_rows[j] # CsvError
    /\ KeyOf(RowToDict(fieldnames, tsv_rows[j]), key_columns) \in existing_keys[p]
    /\ row_number' = row_number + 1
    /\ duplicate_count' = duplicate_count + 1
    /\ pos' = [pos EXCEPT ![p] = j]
    /\ ProgressCheck(p, row_number + 1, duplicate_count + 1, j)
    /\ UNCHANGED <<fetch_vars, server_vars, file_vars, writer_vars, key_columns, has_progress,
                   seconds_between_progress_update, g_pc,
                   existing_keys, yielded, yielded_from, error_row_number>>

\* Lines 223-224: the rows are used up; the last call of indicate_progress.
Reader_EndOfStream(p) ==
    /\ g_pc[p] = "running"
    /\ NextRowIndex(tsv_rows, pos[p]) = 0
    /\ progress_calls' =
            IF duplicate_count # LastProgressRowNumber /\ has_progress
            THEN [progress_calls EXCEPT ![p] =
                        Append(@, ProgressCall(p, row_number, duplicate_count,
                                               now, Len(tsv_rows)))]
            ELSE progress_calls
    /\ pos' = [pos EXCEPT ![p] = Len(tsv_rows)]
    /\ g_pc' = [g_pc EXCEPT ![p] = "exhausted"]
    /\ UNCHANGED <<fetch_vars, server_vars, file_vars, writer_vars, key_columns, has_progress,
                   seconds_between_progress_update,
                   row_number, duplicate_count, now, existing_keys,
                   last_progress_time, yielded, yielded_from, error_row_number>>

\* Bug variant of the error handling: the csv.Error is caught inside the
\* loop, the row is noted and passed over, and the pass goes on.
Reader_CsvError_SkipsRow(p) ==
    LET j == NextRowIndex(tsv_rows, pos[p]) IN
    /\ g_pc[p] = "running"
    /\ j # 0
    /\ tsv_rows[j] = CsvError
    /\ error_row_number' = [error_row_number EXCEPT ![p] = row_number]
    /\ pos' = [pos EXCEPT ![p] = j]
    /\ UNCHANGED <<fetch_vars, server_vars, file_vars, writer_vars, key_columns, has_progress,
                   seconds_between_progress_update, g_pc,
                   row_number, duplicate_count, now, existing_keys,
                   last_progress_time, yielded, yielded_from, progress_calls>>

\* Lines 225-226: csv.reader raises csv.Error at the next row; it leaves the
\* generator as PimdbTsvError(path, self.row_number, ...).
Reader_CsvError(p) ==
    LET j == NextRowIndex(tsv_rows, pos[p]) IN
    /\ g_pc[p] = "running"
    /\ j # 0
    /\ tsv_rows[j] = CsvError
    /\ error_row_number' = [error_row_number EXCEPT ![p] = row_number]
    /\ pos' = [pos EXCEPT ![p] = j]
    /\ g_pc' = [g_pc EXCEPT ![p] = "failed"]
    /\ UNCHANGED <<fetch_vars, server_vars, file_vars, writer_vars, key_columns, has_progress,
                   seconds_between_progress_update,
                   row_number, duplicate_count, now, existing_keys,
                   last_progress_time, yielded, yielded_from, progress_calls>>

\* next() on a generator that has returned or raised: StopIteration, and
\* none of the generator's code runs.
Reader_PullFinished(p) ==
    /\ g_pc[p] \in {"exhausted", "failed"}
    /\ UNCHANGED vars

\* ------------------------------------------------------------------------
\* Initial states and specifications
\* ------------------------------------------------------------------------

\* No download has happened: no cache file, no target file.
FetchStart ==
    /\ cache_file = AbsentFile
    /\ target_file = [u \in URLs |-> NoFile]
    /\ f_pc = "idle"
    /\ source_url = "name.basics"
    /\ only_if_newer = FALSE
    /\ last_modified_map = EmptyDict
    /\ current_last_modified = PyNone
    /\ outcome = "none"
    /\ snap_cache = AbsentFile
    /\ snap_target = NoFile
    /\ opened_target = FALSE
    /\ fetched = [u \in URLs |-> PyNone]
    /\ lost = {}

\* GzippedTsvReader.__init__ (lines 174-179); no generator exists.
ReaderStart ==
    /\ row_number = PyNoneInt
    /\ duplicate_count = PyNoneInt
    /\ now = 0
    /\ g_pc = [p \in Passes |-> "none"]
    /\ pos = [p \in Passes |-> 0]
    /\ existing_keys = [p \in Passes |-> {}]
    /\ last_progress_time = [p \in Passes |-> 0]
    /\ yielded = [p \in Passes |-> << >>]
    /\ yielded_from = [p \in Passes |-> << >>]
    /\ progress_calls = [p \in Passes |-> << >>]
    /\ error_row_number = [p \in Passes |-> PyNoneInt]

\* The dataset's server advertises its first token; no conditional download
\* has succeeded.
ServerStart ==
    /\ server_token = "t1"
    /\ last_body = 0

\* The header of the input files: two columns.
Fieldnames == <<Chr("n"), Chr("p")>>

\* The field values of the input files.
FieldValues == {Chr("a"), Chr("b")}

\* The rows of the input files: blank lines, rows with too few fields, rows
\* that fit the header and rows with one field too many.
RowChoices ==
    {<< >>}
    \cup {<<x>> : x \in FieldValues}
    \cup {<<x, y>> : x, y \in FieldValues}
    \cup {<<x, x, Chr("a")>> : x \in FieldValues}

\* The sequences of at most n elements of S.
SeqUpTo(S, n) == UNION {[1..k -> S] : k \in 0..n}

\* The input files: at most MaxRows rows; csv.reader may fail at the last.
InputFiles ==
    SeqUpTo(RowChoices, MaxRows)
    \cup {Append(f, CsvError) : f \in SeqUpTo(RowChoices, MaxRows - 1)}

KeyColumnChoices == {<<Chr("n")>>, <<Chr("n"), Chr("p")>>}

\* The values of the parameter seconds_between_progress_update (line 172):
\* a short interval and the default.
ProgressIntervals == {1, SecondsBetweenProgressUpdate}

\* Nothing is being written.
WriterStart ==
    /\ write_columns = << >>
    /\ rows_to_write = << >>
    /\ written = 0

FetchInit ==
    /\ FetchStart
    /\ ReaderStart
    /\ WriterStart
    /\ fieldnames = Fieldnames
    /\ tsv_rows = << >>
    /\ key_columns = <<Chr("n")>>
    /\ has_progress = FALSE
    /\ seconds_between_progress_update = SecondsBetweenProgressUpdate
    /\ ServerStart

FetchNext ==
    \/ Download_Call
    \/ Download_HttpError
    \/ Download_Response
    \/ Download_WriteChunk
    \/ Download_TransportError
    \/ Download_BodyDone
    \/ Download_WriteCache
    \/ Crash

\* Downloads of the datasets of one directory, one call at a time.
SpecFetch == FetchInit /\ [][FetchNext]_vars

ReadInit ==
    /\ FetchStart
    /\ ReaderStart
    /\ WriterStart
    /\ fieldnames = Fieldnames
    /\ tsv_rows \in InputFiles
    /\ key_columns \in KeyColumnChoices
    /\ has_progress \in BOOLEAN
    /\ seconds_between_progress_update = SecondsBetweenProgressUpdate
    /\ ServerStart

ReadNext ==
    \E p \in {1} :
        \/ Reader_Call(p)
        \/ Reader_Start(p)
        \/ Reader_Yield(p)
        \/ Reader_Resume(p)
        \/ Reader_Duplicate(p)
        \/ Reader_EndOfStream(p)
        \/ Reader_CsvError(p)
        \/ Reader_PullFinished(p)

\* One read pass of a GzippedTsvReader over one input file.
SpecRead == ReadInit /\ [][ReadNext]_vars

RefetchNext ==
    \/ Server_Replace
    \/ Refetch_Call
    \/ Download_HttpError
    \/ Refetch_Response
    \/ Download_WriteChunk
    \/ Download_TransportError
    \/ Download_BodyDone
    \/ Refetch_WriteCache
    \/ Crash

\* Conditional fetches of one dataset to one target path, one after the
\* other, starting without cache file; a fetch may fail at any point.
SpecRefetch == FetchInit /\ [][RefetchNext]_vars

CacheNext ==
    \/ Cache_Construct
    \/ Cache_Update
    \/ Cache_WriteOpen
    \/ Cache_WriteDump
    \/ Crash

\* One LastModifiedMap after the other on one cache file, each updated and
\* written any number of times; the process may die at any point.
SpecCache == FetchInit /\ [][CacheNext]_vars

\* The input files whose rows all fit the header.
RegularFiles == SeqUpTo({<<x, y>> : x, y \in FieldValues}, MaxRows)

ProgressInit ==
    /\ FetchStart
    /\ ReaderStart
    /\ WriterStart
    /\ ServerStart
    /\ fieldnames = Fieldnames
    /\ tsv_rows \in RegularFiles
    /\ key_columns \in KeyColumnChoices
    /\ has_progress = TRUE
    /\ seconds_between_progress_update \in ProgressIntervals

ProgressNext ==
    \E p \in {1} :
        \/ Reader_Call(p)
        \/ Reader_Start(p)
        \/ Reader_Yield(p)
        \/ Reader_Resume(p)
        \/ Reader_Duplicate(p)
        \/ Reader_EndOfStream(p)
        \/ Reader_PullFinished(p)

\* One read pass with a progress callback, the interval between two calls
\* being the default or a shorter one.
SpecProgress == ProgressInit /\ [][ProgressNext]_vars

TwoPassInit ==
    /\ FetchStart
    /\ ReaderStart
    /\ WriterStart
    /\ ServerStart
    /\ fieldnames = Fieldnames
    /\ tsv_rows \in InputFiles
    /\ key_columns \in KeyColumnChoices
    /\ has_progress = FALSE
    /\ seconds_between_progress_update = SecondsBetweenProgressUpdate

TwoPassNext ==
    \E p \in Passes :
        \/ Reader_Call(p)
        \/ Reader_Start(p)
        \/ Reader_Yield(p)
        \/ Reader_Resume(p)
        \/ Reader_Duplicate(p)
        \/ Reader_EndOfStream(p)
        \/ Reader_CsvError(p)
        \/ Reader_PullFinished(p)

\* Two read passes of one GzippedTsvReader over one input file, the consumer
\* pulling from either generator in any order.
SpecTwoPasses == TwoPassInit /\ [][TwoPassNext]_vars

\* The values of the records of the round trip: empty, plain, with double
\* quotes, with a tab, with a line feed.
RoundTripValues ==
    {<< >>, Chr("a"), Chr("b"), <<QUOTE, "a", QUOTE>>, <<QUOTE>>, <<TAB>>, <<"a", LF>>}

\* The values of the second column.
RoundTripOtherValues == {<< >>, <<QUOTE, "a", QUOTE>>, <<"a", LF>>}

\* The records over the given columns.
RoundTripRecords(columns) ==
    IF Len(columns) = 1
    THEN {[c \in {columns[1]} |-> StrValue(v)] : v \in RoundTripValues}
    ELSE {[c \in {columns[1], columns[2]} |->
                IF c = columns[1] THEN StrValue(v) ELSE StrValue(w)] :
            v \in RoundTripValues, w \in RoundTripOtherValues}

RoundTripInit ==
    /\ FetchStart
    /\ ReaderStart
    /\ write_columns \in {<<Chr("n")>>, <<Chr("n"), Chr("p")>>}
    /\ rows_to_write \in SeqUpTo(RoundTripRecords(write_columns), MaxRecords)
    /\ written = 0
    /\ fieldnames = << >>
    /\ tsv_rows = << >>
    /\ key_columns \in {k \in KeyColumnChoices : Len(k) <= Len(write_columns)}
    /\ has_progress = FALSE
    /\ seconds_between_progress_update = SecondsBetweenProgressUpdate
    /\ ServerStart

RoundTripNext ==
    \/ Writer_Write
    \/ \E p \in {1} :
        \/ RoundTrip_Call(p)
        \/ Reader_Start(p)
        \/ Reader_Yield(p)
        \/ Reader_Resume(p)
        \/ Reader_Duplicate(p)
        \/ Reader_EndOfStream(p)

\* The test: records are written to a file, then read back in one pass.
SpecRoundTrip == RoundTripInit /\ [][RoundTripNext]_vars

\* ========================================================================
\* Properties of download_imdb_dataset and LastModifiedMap (SpecFetch)
\* ========================================================================

\* The token the persisted cache held for source_url when the call started.
StoredToken == DictGet(LoadMap(snap_cache), source_url)

\* The token the persisted cache holds for a URL now.
PersistedToken(u) == DictGet(LoadMap(cache_file), u)

\* The target file holds the whole body of the response.
TargetComplete == target_file[source_url].chunks = NumChunks

\* C2: cache gating with only_if_newer. With token T0 stored for the URL, a
\* response advertising T0 leaves the target file unopened and unchanged; a
\* response advertising a token T1 # T0 opens the target file, and when the
\* call has returned the target holds the whole body and the persisted cache
\* stores T1 for the URL.
C2_CacheGating ==
    (only_if_newer /\ StoredToken \in Tokens) =>
        /\ current_last_modified = StoredToken =>
              /\ ~opened_target
              /\ target_file[source_url] = snap_target
        /\ (current_last_modified \in Tokens /\ current_last_modified # StoredToken) =>
              /\ opened_target
              /\ outcome = "downloaded" =>
                    /\ TargetComplete
                    /\ PersistedToken(source_url) = current_last_modified

C2_Witness ==
    /\ only_if_newer
    /\ StoredToken \in Tokens
    /\ current_last_modified \in Tokens
    /\ current_last_modified # StoredToken
    /\ outcome = "downloaded"

\* The skip case of C2 is reached as well.
C2_SkipReached ==
    /\ only_if_newer
    /\ StoredToken \in Tokens
    /\ current_last_modified = StoredToken
    /\ outcome = "skipped"

\* C3: a response without modification-time header always downloads under
\* only_if_newer: whenever such a response was received, the target file
\* was opened for writing.
C3_MissingHeaderDownloads ==
    (only_if_newer /\ current_last_modified = PyNone
        /\ (f_pc \in {"stream", "write"}
            \/ outcome \in {"skipped", "downloaded", "transport_error"}))
    => opened_target

\* C6: a cache loaded from a file with invalid content equals one loaded
\* from an absent file, and is_modified is true for every URL and every
\* value the fetcher can pass.
C6_CorruptCacheForcesDownload ==
    (f_pc = "request" /\ only_if_newer /\ snap_cache = TornFile) =>
        /\ last_modified_map = LoadMap(AbsentFile)
        /\ \A u \in URLs, t \in HeaderValues : IsModified(last_modified_map, u, t)

\* C9: when the call fails by a non-success status or by a transport failure
\* while streaming, the persisted cache is what it was before the call; on a
\* non-success status the target file is not opened and not changed.
C9_FailureKeepsCache ==
    /\ outcome \in {"http_error", "transport_error"} =>
          /\ cache_file = snap_cache
          /\ PersistedToken(source_url) = StoredToken
    /\ outcome = "http_error" =>
          /\ ~opened_target
          /\ target_file[source_url] = snap_target

C9_Witness ==
    /\ outcome = "transport_error"
    /\ only_if_newer
    /\ StoredToken \in Tokens
    /\ current_last_modified \in Tokens
    /\ target_file[source_url].chunks = 1

\* C10 as stated: once a conditional download of a URL has returned under
\* token T, then after any later crash a fresh process finds T stored for it.
C10_CrashAnywhereKeepsState ==
    f_pc = "idle" =>
        \A u \in URLs :
            fetched[u] \in Tokens => ~IsModified(LoadMap(cache_file), u, fetched[u])

\* C10 amended: the state survives every crash except one inside
\* LastModifiedMap.write, between the truncation of the cache file and the
\* end of json.dump.
C10_CrashOutsideWriteKeepsState ==
    f_pc # "write" =>
        \A u \in URLs \ lost :
            fetched[u] \in Tokens => ~IsModified(LoadMap(cache_file), u, fetched[u])

C10_Witness ==
    /\ outcome = "crashed"
    /\ opened_target
    /\ \E u \in URLs \ lost :
          /\ u # source_url
          /\ fetched[u] \in Tokens
          /\ ~IsModified(LoadMap(cache_file), u, fetched[u])

\* ========================================================================
\* Properties of GzippedTsvReader (SpecRead, SpecRoundTrip)
\* ========================================================================

\* The data rows of the input file: the lines after the header that are not
\* blank.
DataRowIndexes == {i \in 1..Len(tsv_rows) : tsv_rows[i] \notin {<< >>, CsvError}}

\* The position of a column in the header.
ColumnPosition(c) == CHOOSE i \in 1..Len(fieldnames) : fieldnames[i] = c

\* The key tuple of a data row: its fields at the key columns, None where
\* the row has no such field.
RowKey(i) ==
    [k \in 1..Len(key_columns) |->
        IF ColumnPosition(key_columns[k]) <= Len(tsv_rows[i])
        THEN StrValue(tsv_rows[i][ColumnPosition(key_columns[k])])
        ELSE NoneValue]

DistinctKeys == {RowKey(i) : i \in DataRowIndexes}

\* The data rows that are the first in the file to carry their key.
FirstOccurrences ==
    {i \in DataRowIndexes : \A j \in DataRowIndexes : j < i => RowKey(j) # RowKey(i)}

\* C1: a pass that ran to exhaustion has yielded one record per distinct key
\* tuple, the record of the first row carrying the key, in file order.
C1_DedupFirstOccurrence ==
    g_pc[1] = "exhausted" =>
        /\ {yielded_from[1][m] : m \in 1..Len(yielded_from[1])} = FirstOccurrences
        /\ \A m \in 1..(Len(yielded_from[1]) - 1) :
                yielded_from[1][m] < yielded_from[1][m + 1]
        /\ Len(yielded[1]) = Cardinality(DistinctKeys)
        /\ \A m \in 1..Len(yielded[1]) :
                /\ yielded[1][m] = RowToDict(fieldnames, tsv_rows[yielded_from[1][m]])
                /\ \A k \in 1..Len(key_columns) :
                        yielded[1][m][key_columns[k]] = RowKey(yielded_from[1][m])[k]

C1_Witness ==
    /\ g_pc[1] = "exhausted"
    /\ Len(yielded[1]) >= 2
    /\ Cardinality(DataRowIndexes) > Len(yielded[1])
    /\ Len(key_columns) = 2

\* C4: a data row whose field count differs from the header's makes the pass
\* fail when it is reached; neither it nor a later row is yielded.
C4_FieldCountMismatchRaises ==
    \A k \in DataRowIndexes :
        (Len(tsv_rows[k]) # Len(fieldnames) /\ pos[1] >= k) =>
            /\ g_pc[1] = "failed"
            /\ \A m \in 1..Len(yielded_from[1]) : yielded_from[1][m] < k

\* C5: after a pass over n data rows is exhausted, duplicate_count is n minus
\* the number of distinct key tuples, and row_number is n.
C5_DuplicateCount ==
    g_pc[1] = "exhausted" =>
        /\ duplicate_count = Cardinality(DataRowIndexes) - Cardinality(DistinctKeys)
        /\ row_number = Cardinality(DataRowIndexes)

C5_Witness ==
    /\ g_pc[1] = "exhausted"
    /\ duplicate_count >= 1
    /\ Cardinality(DistinctKeys) >= 2
    /\ ~has_progress

\* The records to write have pairwise distinct keys.
WrittenKeysDistinct ==
    \A i, j \in 1..Len(rows_to_write) :
        i # j => KeyOf(rows_to_write[i], key_columns) # KeyOf(rows_to_write[j], key_columns)

\* C7 as stated: any records with pairwise distinct keys, written and read
\* back, are yielded unchanged and in order, with duplicate_count 0.
C7_RoundTripAnyValues ==
    (g_pc[1] = "exhausted" /\ WrittenKeysDistinct) =>
        /\ yielded[1] = rows_to_write
        /\ duplicate_count = 0

\* No value holds a tab or a line feed, and no record is written as an empty
\* line (a single column with the empty string).
WrittenValuesPlain ==
    \A i \in 1..Len(rows_to_write) :
        /\ \A k \in 1..Len(write_columns) :
            \A n \in 1..Len(rows_to_write[i][write_columns[k]].str) :
                rows_to_write[i][write_columns[k]].str[n] \notin {TAB, LF}
        /\ ~(Len(write_columns) = 1 /\ rows_to_write[i][write_columns[1]].str = << >>)

\* C7 amended: the round trip holds for records whose values hold no tab and
\* no line break and that are not written as an empty line; double quotes
\* are kept.
C7_RoundTripPlainValues ==
    (g_pc[1] = "exhausted" /\ WrittenKeysDistinct /\ WrittenValuesPlain) =>
        /\ yielded[1] = rows_to_write
        /\ duplicate_count = 0

C7_Witness ==
    /\ g_pc[1] = "exhausted"
    /\ WrittenKeysDistinct
    /\ WrittenValuesPlain
    /\ Len(rows_to_write) = 2
    /\ Len(write_columns) = 2
    /\ rows_to_write[2][write_columns[2]] = StrValue(<<QUOTE, "a", QUOTE>>)
    /\ yielded[1] = rows_to_write

\* C8: a pass with a progress callback that reaches the end of the stream
\* has called it at least once, and the last call carries the number of data
\* rows and the final duplicate count.
C8_FinalProgressCall ==
    (has_progress /\ g_pc[1] = "exhausted") =>
        /\ Len(progress_calls[1]) >= 1
        /\ LET last == progress_calls[1][Len(progress_calls[1])]
           IN  /\ last[1] = Cardinality(DataRowIndexes)
               /\ last[2] = Cardinality(DataRowIndexes) - Cardinality(DistinctKeys)
               /\ last[2] = duplicate_count

\* No duplicate and no throttled call before the end of the stream.
C8_Witness ==
    /\ has_progress
    /\ g_pc[1] = "exhausted"
    /\ Cardinality(DataRowIndexes) >= 2
    /\ duplicate_count = 0
    /\ Len(progress_calls[1]) = 1

\* A throttled call before the end of the stream is reached as well.
C8_ThrottledCallReached ==
    /\ has_progress
    /\ g_pc[1] = "exhausted"
    /\ duplicate_count >= 1
    /\ Len(progress_calls[1]) = 2

\* ========================================================================
\* Properties of the passes of one GzippedTsvReader (SpecTwoPasses)
\* ========================================================================

\* The consumer holds the control: no generator is executing.
ConsumerRuns == \A q \in Passes : g_pc[q] # "running"

\* The duplicates a pass has dropped among the rows it has read.
DuplicatesOf(p) == RowsRead(pos[p]) - Len(yielded[p])

\* C11: each pass has counters of its own: whenever the consumer looks, the
\* row_number and duplicate_count of a pass that is suspended at a record or
\* exhausted are the rows that pass has read and the duplicates it has
\* dropped, whatever has been pulled from the other pass in between.
C11_PassesIndependent ==
    ConsumerRuns =>
        \A p \in Passes :
            g_pc[p] \in {"suspended", "exhausted"} =>
                /\ row_number = RowsRead(pos[p])
                /\ duplicate_count = DuplicatesOf(p)

\* ========================================================================
\* Properties of one read pass (SpecRead, SpecProgress)
\* ========================================================================

\* The data rows a pass has consumed: the rows csv.reader has delivered to it.
RowsConsumed(p) == Cardinality({i \in DataRowIndexes : i <= pos[p]})

\* The pass is under way or has ended.
Started(p) == g_pc[p] \in {"running", "suspended", "exhausted", "failed"}

\* Where the consumer can look at the counters: at a yielded record and at
\* the end of the pass.
Observable(p) == g_pc[p] \in {"suspended", "exhausted", "failed"}

\* C12: at every yielded record, at every call of the progress callback and
\* at the end of the pass, row_number is the number of data rows consumed so
\* far (the header and blank lines not counted); and no step of the pass
\* decreases it.
C12_RowNumberCountsRows ==
    /\ [](/\ Started(1) => row_number = RowsConsumed(1)
          /\ \A m \in 1..Len(progress_calls[1]) :
                /\ progress_calls[1][m][1] = progress_calls[1][m][4]
                /\ progress_calls[1][m][1] <= row_number)
    /\ [][Started(1) => row_number' >= row_number]_vars

C12_Witness ==
    /\ g_pc[1] = "suspended"
    /\ row_number = 2
    /\ tsv_rows[1] = << >>
    /\ Len(progress_calls[1]) = 1
    /\ progress_calls[1][1][1] = 1

\* A duplicate is counted and reported to the callback as well.
C12_DuplicateReached ==
    /\ g_pc[1] = "exhausted"
    /\ duplicate_count = 1
    /\ row_number = 3
    /\ Len(progress_calls[1]) = 2

\* The state of a pass: the generator has not run, is between its first
\* next() and its end, has returned, or has raised PimdbTsvError.
Phase(p) ==
    CASE g_pc[p] \in {"none", "created"} -> "NotStarted"
      [] g_pc[p] \in {"running", "suspended"} -> "Reading"
      [] g_pc[p] = "exhausted" -> "Exhausted"
      [] g_pc[p] = "failed" -> "Failed"

\* The state of the pass after the step.
NextPhase(p) ==
    CASE g_pc'[p] \in {"none", "created"} -> "NotStarted"
      [] g_pc'[p] \in {"running", "suspended"} -> "Reading"
      [] g_pc'[p] = "exhausted" -> "Exhausted"
      [] g_pc'[p] = "failed" -> "Failed"

PhaseMoves ==
    {<<"NotStarted", "Reading">>, <<"Reading", "Exhausted">>, <<"Reading", "Failed">>}

\* C13: a pass only moves NotStarted -> Reading -> Exhausted or Failed; a
\* pass that has failed or is exhausted stays so and yields no further
\* record, whatever is pulled; a pass is exhausted only when csv.reader has
\* delivered every row of the file and raised no error, and failed only at
\* a row at which csv.reader raised one.
C13_PhasesOfAPass ==
    /\ [](/\ Phase(1) = "Exhausted" =>
                /\ pos[1] = Len(tsv_rows)
                /\ \A i \in 1..Len(tsv_rows) : tsv_rows[i] # CsvError
                /\ error_row_number[1] = PyNoneInt
          /\ Phase(1) = "Failed" =>
                /\ pos[1] >= 1
                /\ tsv_rows[pos[1]] = CsvError)
    /\ [][/\ Phase(1) # NextPhase(1) => <<Phase(1), NextPhase(1)>> \in PhaseMoves
          /\ Phase(1) \in {"Exhausted", "Failed"} =>
                /\ g_pc'[1] = g_pc[1]
                /\ yielded'[1] = yielded[1]
                /\ pos'[1] = pos[1]]_vars

\* A pass has failed after it yielded records.
C13_Witness ==
    /\ Phase(1) = "Failed"
    /\ Len(yielded[1]) = 2
    /\ pos[1] = 3

\* A pass is exhausted after it yielded records.
C13_ExhaustedReached ==
    /\ Phase(1) = "Exhausted"
    /\ Len(yielded[1]) = 2
    /\ duplicate_count = 1

\* C14: when csv.reader raises at data row k, the PimdbTsvError carries the
\* row number k, and the records yielded before it are the first
\* occurrences among the rows 1..k-1, in file order.
C14_ErrorCarriesRowNumber ==
    g_pc[1] = "failed" =>
        /\ error_row_number[1] = RowsRead(pos[1])
        /\ {yielded_from[1][m] : m \in 1..Len(yielded_from[1])}
                = {i \in FirstOccurrences : i < pos[1]}
        /\ \A m \in 1..Len(yielded[1]) :
                yielded[1][m] = RowToDict(fieldnames, tsv_rows[yielded_from[1][m]])

\* What the code does: the error carries the number of the rows read before
\* the offending one.
C14_ErrorCarriesRowsBefore ==
    g_pc[1] = "failed" =>
        /\ error_row_number[1] = RowsRead(pos[1]) - 1
        /\ {yielded_from[1][m] : m \in 1..Len(yielded_from[1])}
                = {i \in FirstOccurrences : i < pos[1]}

\* The time of the m-th call of the progress callback of a pass.
CallTime(p, m) == progress_calls[p][m][3]

\* The m-th call is the one made at the end of the stream (lines 223-224).
IsFinalCall(p, m) == g_pc[p] = "exhausted" /\ m = Len(progress_calls[p])

\* C15 as stated: any two consecutive calls of the callback within a pass,
\* the one at the end of the stream included, are more than
\* seconds_between_progress_update apart.
C15_AllCallsSpaced ==
    \A m \in 2..Len(progress_calls[1]) :
        CallTime(1, m) - CallTime(1, m - 1) > seconds_between_progress_update

\* C15 amended: a call made inside the loop comes more than
\* seconds_between_progress_update after the call before it, and the first
\* one more than that after the start of the pass (time 0); the call at
\* the end of the stream is made whatever the time.
C15_LoopCallsSpaced ==
    \A m \in 1..Len(progress_calls[1]) :
        \/ IsFinalCall(1, m)
        \/ /\ m = 1
           /\ CallTime(1, m) > seconds_between_progress_update
        \/ /\ m > 1
           /\ CallTime(1, m) - CallTime(1, m - 1) > seconds_between_progress_update

\* Two calls inside the loop, then the call at the end with no time passed.
C15_Witness ==
    /\ g_pc[1] = "exhausted"
    /\ Len(progress_calls[1]) = 3
    /\ CallTime(1, 3) = CallTime(1, 2)
    /\ CallTime(1, 2) - CallTime(1, 1) > seconds_between_progress_update

\* ========================================================================
\* Further properties of download_imdb_dataset and LastModifiedMap
\* ========================================================================

\* The call has received a success response.
Responded == f_pc \in {"stream", "write"} \/ outcome \in {"skipped", "downloaded", "transport_error"}

\* C16: a call with only_if_newer=False never skips: once the response is
\* there the target file has been opened for writing, and a call that
\* returns has written the whole body; it builds no LastModifiedMap and
\* leaves the cache file as it was, so the persisted token of every URL is
\* the one from before the call.
C16_UnconditionalDownload ==
    ~only_if_newer =>
        /\ outcome # "skipped"
        /\ f_pc # "write"
        /\ Responded => opened_target
        /\ outcome = "downloaded" => TargetComplete
        /\ last_modified_map = EmptyDict
        /\ cache_file = snap_cache
        /\ \A u \in URLs : PersistedToken(u) = DictGet(LoadMap(snap_cache), u)

\* An unconditional download has replaced a file although the cache holds a
\* token for its URL.
C16_Witness ==
    /\ ~only_if_newer
    /\ outcome = "downloaded"
    /\ PersistedToken(source_url) \in Tokens
    /\ TargetComplete
    /\ snap_target.chunks = NumChunks
    /\ snap_target.body # target_file[source_url].body

\* The map a LastModifiedMap built from the cache file now would hold.
Reloaded == LoadMap(cache_file)

\* C17: update changes the map in memory only: as long as write() has not
\* been called the cache file is the one found at construction or left by
\* the last write(), so a cache built from it does not hold an update that
\* changed an entry; after write() a cache built from the file holds the
\* whole map in memory and nothing else.
C17_UpdateInMemoryWriteWhole ==
    /\ f_pc = "updated" =>
            /\ cache_file = snap_cache
            /\ DictGet(LoadMap(snap_cache), source_url) # current_last_modified
                    => DictGet(Reloaded, source_url) # current_last_modified
            /\ DictGet(last_modified_map, source_url) = current_last_modified
    /\ f_pc = "written" =>
            /\ Reloaded = last_modified_map
            /\ cache_file = JsonDump(last_modified_map)
    /\ f_pc = "loaded" => last_modified_map = Reloaded

\* An update not yet written: the file holds another token for the URL.
C17_Witness ==
    /\ f_pc = "updated"
    /\ current_last_modified = "t2"
    /\ DictGet(Reloaded, source_url) = "t1"
    /\ \E u \in URLs \ {source_url} : DictGet(Reloaded, u) = "t1"

\* A write replaced a file that held other tokens.
C17_WriteReached ==
    /\ f_pc = "written"
    /\ \A u \in URLs : DictGet(Reloaded, u) = "t2"

\* The call has ended by returning or by raising.
CallEnded ==
    /\ f_pc = "idle"
    /\ outcome \in {"downloaded", "skipped", "http_error", "transport_error"}

\* C18: after a call for a URL has ended, the persisted token of every
\* other URL of the shared cache file is the one from before the call.
C18_OtherTokensKept ==
    CallEnded =>
        \A u \in URLs \ {source_url} :
            PersistedToken(u) = DictGet(LoadMap(snap_cache), u)

\* A conditional download has replaced the token of its URL in a cache file
\* that holds a token of the other URL.
C18_Witness ==
    /\ CallEnded
    /\ only_if_newer
    /\ outcome = "downloaded"
    /\ StoredToken = "t1"
    /\ PersistedToken(source_url) = "t2"
    /\ \E u \in URLs \ {source_url} : PersistedToken(u) \in Tokens

\* ========================================================================
\* The counters and the seen keys of one read pass (SpecRead)
\* ========================================================================

\* C19: from the first next() of a pass on, at every yielded record and at
\* its end, row_number is the number of records yielded so far plus
\* duplicate_count, and existing_keys has as many elements as records were
\* yielded; every call of the progress callback carries numbers for which
\* the same holds.
C19_RowsAreYieldedOrDuplicates ==
    /\ Started(1) =>
            /\ row_number = Len(yielded[1]) + duplicate_count
            /\ Cardinality(existing_keys[1]) = Len(yielded[1])
    /\ \A m \in 1..Len(progress_calls[1]) :
            /\ progress_calls[1][m][1] = progress_calls[1][m][5] + progress_calls[1][m][2]
            /\ progress_calls[1][m][6] = progress_calls[1][m][5]

\* A record yielded after a duplicate that the callback was told of.
C19_Witness ==
    /\ g_pc[1] = "suspended"
    /\ Len(yielded[1]) = 2
    /\ duplicate_count = 1
    /\ Len(progress_calls[1]) = 1
    /\ progress_calls[1][1][2] = 1

\* ========================================================================
\* Skipped downloads after failed ones (SpecRefetch)
\* ========================================================================

\* C20: whenever a conditional fetch skips the download, the target file
\* is the whole body written by the last successful download, not a part of
\* a body left by a download that failed since.
C20_SkipMeansCompleteFile ==
    outcome = "skipped" =>
        /\ last_body \in Bodies
        /\ target_file[RefetchUrl] = [body |-> last_body, chunks |-> NumChunks]
        /\ PersistedToken(RefetchUrl) = current_last_modified
        /\ fetched[RefetchUrl] = current_last_modified

\* A download of the second content is skipped.
C20_Witness ==
    /\ outcome = "skipped"
    /\ server_token = "t2"
    /\ fetched[RefetchUrl] = "t2"
    /\ target_file[RefetchUrl].chunks = NumChunks

\* A download of the second content has failed and left a part of the body
\* in the target file, the cache still holding the first token.
C20_PartialFileReached ==
    /\ outcome = "transport_error"
    /\ server_token = "t2"
    /\ PersistedToken(RefetchUrl) = "t1"
    /\ target_file[RefetchUrl].chunks < NumChunks
    /\ last_body \in Bodies

====
